---- MODULE Spec2Model ----
(***************************************************************************)
(* Model of main-llamaparse.py: the guideline batch converter.             *)
(*                                                                         *)
(* File names are sequences of one-character strings, so that the string   *)
(* operations of the script (re.split, str.isdigit, str.lower, int,        *)
(* str.endswith, os.path.splitext) are computed character by character.    *)
(* Extracted texts are TLA+ strings, joined with \o.                       *)
(***************************************************************************)
EXTENDS Integers, Sequences, FiniteSets, TLC

(***************************************************************************)
(* Characters                                                              *)
(***************************************************************************)

\* Code points of the characters that occur in the modelled names.
Ord ==
  ("." :> 46) @@ ("0" :> 48) @@ ("1" :> 49) @@ ("2" :> 50) @@ ("3" :> 51) @@
  ("A" :> 65) @@ ("_" :> 95) @@ ("a" :> 97) @@ ("b" :> 98) @@ ("c" :> 99) @@
  ("d" :> 100) @@ ("e" :> 101) @@ ("f" :> 102) @@ ("g" :> 103) @@
  ("h" :> 104) @@ ("i" :> 105) @@ ("m" :> 109) @@ ("n" :> 110) @@
  ("o" :> 111) @@ ("p" :> 112) @@ ("r" :> 114) @@ ("t" :> 116) @@
  ("x" :> 120)

Chars == DOMAIN Ord

\* str.isdigit on one character
IsDigit(c) == Ord[c] >= 48 /\ Ord[c] <= 57

\* str.lower on one character
LowerChar(c) ==
  IF Ord[c] >= 65 /\ Ord[c] <= 90
    THEN CHOOSE d \in Chars : Ord[d] = Ord[c] + 32
    ELSE c

\* str.lower
Lower(s) == [i \in 1..Len(s) |-> LowerChar(s[i])]

\* str.isdigit: non-empty and every character a digit
IsDigitStr(s) == s # <<>> /\ \A i \in 1..Len(s) : IsDigit(s[i])

\* int(text) of a run of decimal digits
RECURSIVE ToInt(_)
ToInt(s) ==
  IF s = <<>> THEN 0
  ELSE 10 * ToInt(SubSeq(s, 1, Len(s) - 1)) + (Ord[s[Len(s)]] - 48)

\* Python's < on two str values: lexicographic by code point
RECURSIVE StrLess(_, _)
StrLess(s, t) ==
  IF t = <<>> THEN FALSE
  ELSE IF s = <<>> THEN TRUE
  ELSE IF Ord[Head(s)] # Ord[Head(t)] THEN Ord[Head(s)] < Ord[Head(t)]
  ELSE StrLess(Tail(s), Tail(t))

(***************************************************************************)
(* natural_sort_key and sorted(..., key=natural_sort_key)                  *)
(***************************************************************************)

\* re.split(r'(\d+)', filename): the chunks alternate text, digit run, text,
\* ..., beginning and ending with a (possibly empty) text chunk.  `done`
\* holds the finished chunks, `cur` the chunk being read; the chunk being
\* read is a text chunk exactly when Len(done) is even.
RECURSIVE SplitAcc(_, _, _)
SplitAcc(s, done, cur) ==
  IF s = <<>>
    THEN IF Len(done) % 2 = 0
           THEN Append(done, cur)
           ELSE Append(Append(done, cur), <<>>)
    ELSE IF IsDigit(Head(s)) = (Len(done) % 2 = 1)
           THEN SplitAcc(Tail(s), done, Append(cur, Head(s)))
           ELSE SplitAcc(Tail(s), Append(done, cur), <<Head(s)>>)

ReSplit(s) == SplitAcc(s, <<>>, <<>>)

\* A mutated key: digit runs are kept as text, not converted with int().
natural_sort_key_noint(filename) ==
  LET chunks == ReSplit(filename)
  IN  [i \in 1..Len(chunks) |-> [num |-> FALSE, val |-> Lower(chunks[i])]]

\* natural_sort_key: int(text) if text.isdigit() else text.lower()
natural_sort_key(filename) ==
  LET chunks == ReSplit(filename)
  IN  [i \in 1..Len(chunks) |->
         IF IsDigitStr(chunks[i])
           THEN [num |-> TRUE, val |-> ToInt(chunks[i])]
           ELSE [num |-> FALSE, val |-> Lower(chunks[i])]]

\* Python's < on two key elements.  Elements at the same index always have
\* the same type (even index: str, odd index: int), so int is never
\* compared with str.
ElemLess(a, b) ==
  IF a.num /\ b.num THEN a.val < b.val
  ELSE IF ~a.num /\ ~b.num THEN StrLess(a.val, b.val)
  ELSE FALSE

\* Python's < on two lists: the first differing element decides; a proper
\* prefix is smaller.
RECURSIVE KeyLess(_, _)
KeyLess(k1, k2) ==
  IF k2 = <<>> THEN FALSE
  ELSE IF k1 = <<>> THEN TRUE
  ELSE IF Head(k1) # Head(k2) THEN ElemLess(Head(k1), Head(k2))
  ELSE KeyLess(Tail(k1), Tail(k2))

\* Insert x behind every element whose key is not greater (stability).
RECURSIVE InsertSorted(_, _)
InsertSorted(x, L) ==
  IF L = <<>> THEN <<x>>
  ELSE IF KeyLess(natural_sort_key(x), natural_sort_key(Head(L)))
         THEN <<x>> \o L
         ELSE <<Head(L)>> \o InsertSorted(x, Tail(L))

\* sorted(L, key=natural_sort_key): a stable sort
RECURSIVE Sorted(_)
Sorted(L) ==
  IF L = <<>> THEN <<>>
  ELSE InsertSorted(L[Len(L)], Sorted(SubSeq(L, 1, Len(L) - 1)))

(***************************************************************************)
(* String helpers of the orchestration code                                *)
(***************************************************************************)

\* page_separator, and the separator of both "\n---\n".join calls
SEP == "\n---\n"

\* sep.join(texts)
RECURSIVE Join(_, _)
Join(sep, texts) ==
  IF texts = <<>> THEN ""
  ELSE IF Len(texts) = 1 THEN texts[1]
  ELSE texts[1] \o sep \o Join(sep, Tail(texts))

DotPdf == <<".", "p", "d", "f">>
DotTxt == <<".", "t", "x", "t">>
CombinedTxt == <<"_", "c", "o", "m", "b", "i", "n", "e", "d">> \o DotTxt

\* A mutated suffix test: "pdf" without the dot.
EndsWithPdfNoDot(name) ==
  Len(name) >= 3 /\ SubSeq(name, Len(name) - 2, Len(name)) = <<"p", "d", "f">>

\* pdf_file.endswith(".pdf")
EndsWithPdf(name) ==
  Len(name) >= 4 /\ SubSeq(name, Len(name) - 3, Len(name)) = DotPdf

\* os.path.splitext(name)[0]: the name up to its last dot, leading dots
\* not counting as the start of an extension.
SplitextRoot(name) ==
  LET dots == {i \in 1..Len(name) : name[i] = "."}
      last == CHOOSE i \in dots : \A j \in dots : j <= i
  IN  IF dots # {} /\ (\E j \in 1..(last - 1) : name[j] # ".")
        THEN SubSeq(name, 1, last - 1)
        ELSE name

\* output_txt_path, relative to output_directory
OutputTxtPath(guideline, name) == <<guideline, SplitextRoot(name) \o DotTxt>>

\* master_txt_path, relative to output_directory
MasterTxtPath(guideline) == <<guideline, guideline \o CombinedTxt>>

\* A mutated makedirs: exist_ok=False, raising when the directory exists.
MakedirsNotExistOk(dirs, path) ==
  [raised |-> path \in dirs,
   dirs   |-> dirs \cup {SubSeq(path, 1, k) : k \in 0..Len(path)}]

\* os.makedirs(path, exist_ok=True) on the set of existing directories.
\* A directory is the sequence of its components below output_directory
\* (<<>> is output_directory itself); missing parents are created with it.
Makedirs(dirs, path) ==
  [raised |-> FALSE,
   dirs   |-> dirs \cup {SubSeq(path, 1, k) : k \in 0..Len(path)}]

(***************************************************************************)
(* The input tree ./pdfs and the remote parser                             *)
(***************************************************************************)

\* Most entries one input tree holds in its guideline folders.
MaxFiles == 2

\* Most per-file writes the filesystem refuses in one behaviour.
MaxWriteFailures == 1

G == <<"g">>
H == <<"h">>
R == <<"r">>

\* The entries of ./pdfs: the guideline folders G and H, and R, a plain file.
Guidelines == {G, H}

A2        == <<"a", "2">> \o DotPdf
A02       == <<"a", "0", "2">> \o DotPdf
A10       == <<"a", "1", "0">> \o DotPdf
GCombined == G \o <<"_", "c", "o", "m", "b", "i", "n", "e", "d">> \o DotPdf
A3pdf     == <<"a", "3", "p", "d", "f">>

\* The entry names a guideline folder may hold.
NameUniverse == {A2, A02, A10, GCombined, A3pdf}

\* The page texts the parser extracts from a document when it succeeds:
\* a property of the document.
PagesOf(name) ==
  IF name = A2 THEN <<"X", "Y">>
  ELSE IF name = A02 THEN <<"Z">>
  ELSE IF name = A10 THEN <<"W", "", "V">>
  ELSE IF name = GCombined THEN <<"U">>
  ELSE <<"T">>

\* What parser.load_data may do for one file: raise, return no documents,
\* or return the documents of its pages.
Outcomes(name) ==
  {[raises |-> TRUE, documents |-> <<>>],
   [raises |-> FALSE, documents |-> <<>>],
   [raises |-> FALSE, documents |-> PagesOf(name)]}

Range(f) == {f[i] : i \in DOMAIN f}

\* The orders in which os.listdir may return the entries of a directory:
\* every sequence without repetition.
ListingsOf(S, n) ==
  UNION {{l \in [1..k -> S] : \A i, j \in 1..k : i # j => l[i] # l[j]} : k \in 0..n}

\* The orders of the entries of ./pdfs that are modelled: the guideline
\* folders in both orders, the plain file at each position.
RootListings == {<<G, R, H>>, <<H, G, R>>, <<R, H, G>>}

\* The (folder, name) pairs of an input tree.
Entries(tree) ==
  {e \in Guidelines \X NameUniverse : e[2] \in Range(tree[e[1]])}

(***************************************************************************)
(* State                                                                   *)
(***************************************************************************)
VARIABLES
  rootListing,      \* os.listdir(pdfs_directory), in the order it returns
  pdfs,             \* guideline folder -> os.listdir(guideline_path)
  result,           \* (folder, name) -> what parser.load_data does for it
  outDirs,          \* the directories that exist at or below ./output
  outFiles,         \* path below ./output -> content of the file there
  pc,               \* position of the script
  run,              \* 1 in the first execution of the script, 2 in the second
  gqueue,           \* root entries the outer loop has still to visit
  guideline_folder, \* the outer loop's variable
  fqueue,           \* entries the inner loop has still to visit
  pdf_file,         \* the inner loop's variable
  combined_texts,   \* the accumulator of the current guideline
  appended,         \* the documents whose texts combined_texts holds
  handles,          \* the source PDFs open for reading
  outstanding,      \* the extraction requests awaiting their result
  requests,         \* the extraction requests issued in this execution
  written,          \* the paths written in this execution
  log,              \* the lines printed in this execution
  writeFailures,    \* per-file writes refused so far
  firstTree         \* <<outDirs, outFiles>> at the end of the first execution

vars == <<rootListing, pdfs, result, outDirs, outFiles, pc, run, gqueue,
          guideline_folder, fqueue, pdf_file, combined_texts, appended,
          handles, outstanding, requests, written, log, writeFailures,
          firstTree>>

input == <<rootListing, pdfs, result>>
loopvars == <<gqueue, guideline_folder, fqueue, pdf_file>>

NoFiles == [p \in {} |-> ""]

Init ==
  /\ rootListing \in RootListings
  /\ pdfs \in {t \in [Guidelines -> ListingsOf(NameUniverse, MaxFiles)] :
                 Len(t[G]) + Len(t[H]) <= MaxFiles}
  /\ result \in {r \in [Entries(pdfs) -> UNION {Outcomes(n) : n \in NameUniverse}] :
                   \A e \in Entries(pdfs) : r[e] \in Outcomes(e[2])}
  /\ outDirs = {}
  /\ outFiles = NoFiles
  /\ pc = "start"
  /\ run = 1
  /\ gqueue = <<>>
  /\ guideline_folder = <<>>
  /\ fqueue = <<>>
  /\ pdf_file = <<>>
  /\ combined_texts = <<>>
  /\ appended = <<>>
  /\ handles = {}
  /\ outstanding = {}
  /\ requests = <<>>
  /\ written = {}
  /\ log = <<>>
  /\ writeFailures = 0
  /\ firstTree = <<{}, NoFiles>>

(***************************************************************************)
(* The script, step by step                                                *)
(***************************************************************************)

\* os.path.isdir(guideline_path)
IsDir(entry) == entry \in Guidelines

\* The document the inner loop is at.
Current == <<guideline_folder, pdf_file>>

\* The exception of a failed os.makedirs is caught nowhere.
Crash ==
  /\ pc' = "crashed"
  /\ UNCHANGED <<outDirs, outFiles, run, loopvars, combined_texts, appended,
                 handles, outstanding, requests, written, log, writeFailures,
                 firstTree>>

\* Line 19, and the os.listdir of line 46.
StartScript ==
  /\ pc = "start"
  /\ LET m == Makedirs(outDirs, <<>>)
     IN  IF m.raised THEN Crash
         ELSE /\ outDirs' = m.dirs
              /\ gqueue' = rootListing
              /\ pc' = "guidelines"
              /\ UNCHANGED <<outFiles, run, guideline_folder, fqueue, pdf_file,
                             combined_texts, appended, handles, outstanding,
                             requests, written, log, writeFailures, firstTree>>
  /\ UNCHANGED input

\* Lines 46-48, for an entry of ./pdfs that is no directory.
SkipRootEntry ==
  /\ pc = "guidelines"
  /\ gqueue # <<>>
  /\ ~IsDir(Head(gqueue))
  /\ gqueue' = Tail(gqueue)
  /\ UNCHANGED <<input, outDirs, outFiles, pc, run, guideline_folder, fqueue,
                 pdf_file, combined_texts, appended, handles, outstanding,
                 requests, written, log, writeFailures, firstTree>>

\* Lines 46-58, for a guideline folder: its output directory, the empty
\* accumulator, and the sorted listing the inner loop will walk.
EnterGuideline ==
  /\ pc = "guidelines"
  /\ gqueue # <<>>
  /\ IsDir(Head(gqueue))
  /\ LET m == Makedirs(outDirs, <<Head(gqueue)>>)
     IN  IF m.raised THEN Crash
         ELSE /\ outDirs' = m.dirs
              /\ guideline_folder' = Head(gqueue)
              /\ gqueue' = Tail(gqueue)
              /\ combined_texts' = <<>>
              /\ appended' = <<>>
              /\ fqueue' = Sorted(pdfs[Head(gqueue)])
              /\ pc' = "files"
              /\ UNCHANGED <<outFiles, run, pdf_file, handles, outstanding,
                             requests, written, log, writeFailures, firstTree>>
  /\ UNCHANGED input

\* Lines 57-64: the next entry of the folder; a PDF is opened for reading,
\* anything else is passed over.
VisitEntry ==
  /\ pc = "files"
  /\ fqueue # <<>>
  /\ pdf_file' = Head(fqueue)
  /\ fqueue' = Tail(fqueue)
  /\ IF EndsWithPdf(Head(fqueue))
       THEN /\ handles' = handles \cup {<<guideline_folder, Head(fqueue)>>}
            /\ pc' = "opened"
       ELSE /\ handles' = handles
            /\ pc' = "files"
  /\ UNCHANGED <<input, outDirs, outFiles, run, gqueue, guideline_folder,
                 combined_texts, appended, outstanding, requests, written, log,
                 writeFailures, firstTree>>

\* Lines 66-67: the blocking request to the remote parser.
CallParser ==
  /\ pc = "opened"
  /\ outstanding' = outstanding \cup {Current}
  /\ requests' = Append(requests, Current)
  /\ pc' = "parsing"
  /\ UNCHANGED <<input, outDirs, outFiles, run, loopvars, combined_texts,
                 appended, handles, written, log, writeFailures, firstTree>>

\* A mutated handler: the exception of the parser is not caught.
ParserRaisesUncaught ==
  /\ pc = "parsing"
  /\ result[Current].raises
  /\ outstanding' = outstanding \ {Current}
  /\ pc' = "crashed"
  /\ UNCHANGED <<input, outDirs, outFiles, run, loopvars, combined_texts,
                 appended, handles, requests, written, log, writeFailures,
                 firstTree>>

\* Lines 82-83: load_data raised.
ParserRaises ==
  /\ pc = "parsing"
  /\ result[Current].raises
  /\ outstanding' = outstanding \ {Current}
  /\ log' = Append(log, [kind |-> "error", file |-> pdf_file])
  /\ pc' = "closing"
  /\ UNCHANGED <<input, outDirs, outFiles, run, loopvars, combined_texts,
                 appended, handles, requests, written, writeFailures, firstTree>>

\* A mutated handler: an empty result is appended like any other.
ParserReturnsEmptyAppended ==
  /\ pc = "parsing"
  /\ ~result[Current].raises
  /\ result[Current].documents = <<>>
  /\ outstanding' = outstanding \ {Current}
  /\ combined_texts' = Append(combined_texts, "")
  /\ appended' = Append(appended, pdf_file)
  /\ log' = Append(log, [kind |-> "warning", file |-> pdf_file])
  /\ pc' = "closing"
  /\ UNCHANGED <<input, outDirs, outFiles, run, loopvars, handles, requests,
                 written, writeFailures, firstTree>>

\* Lines 68-71: load_data returned no documents.
ParserReturnsEmpty ==
  /\ pc = "parsing"
  /\ ~result[Current].raises
  /\ result[Current].documents = <<>>
  /\ outstanding' = outstanding \ {Current}
  /\ log' = Append(log, [kind |-> "warning", file |-> pdf_file])
  /\ pc' = "closing"
  /\ UNCHANGED <<input, outDirs, outFiles, run, loopvars, combined_texts,
                 appended, handles, requests, written, writeFailures, firstTree>>

\* Lines 72-83: load_data returned pages.  The joined text is appended to
\* the accumulator first; then the per-file artifact is written, and when
\* open(output_txt_path, "w") raises, the handler of line 82 prints the
\* error and the loop goes on.
ParserReturnsPages ==
  /\ pc = "parsing"
  /\ ~result[Current].raises
  /\ result[Current].documents # <<>>
  /\ outstanding' = outstanding \ {Current}
  /\ LET page_text == Join(SEP, result[Current].documents)
         output_txt_path == OutputTxtPath(guideline_folder, pdf_file)
     IN  /\ combined_texts' = Append(combined_texts, page_text)
         /\ appended' = Append(appended, pdf_file)
         /\ \/ /\ outFiles' = (output_txt_path :> page_text) @@ outFiles
               /\ written' = written \cup {output_txt_path}
               /\ log' = Append(log, [kind |-> "saved", file |-> pdf_file])
               /\ UNCHANGED writeFailures
            \/ /\ writeFailures < MaxWriteFailures
               /\ writeFailures' = writeFailures + 1
               /\ log' = Append(log, [kind |-> "error", file |-> pdf_file])
               /\ UNCHANGED <<outFiles, written>>
  /\ pc' = "closing"
  /\ UNCHANGED <<input, outDirs, run, loopvars, handles, requests, firstTree>>

\* A mutated exit: the source is closed at the end of the try body only,
\* so it stays open when load_data raised.
CloseSourceUnlessRaised ==
  /\ pc = "closing"
  /\ handles' = IF result[Current].raises THEN handles ELSE handles \ {Current}
  /\ pc' = "files"
  /\ UNCHANGED <<input, outDirs, outFiles, run, loopvars, combined_texts,
                 appended, outstanding, requests, written, log, writeFailures,
                 firstTree>>

\* Line 64: leaving the with block closes the source, on every path.
CloseSource ==
  /\ pc = "closing"
  /\ handles' = handles \ {Current}
  /\ pc' = "files"
  /\ UNCHANGED <<input, outDirs, outFiles, run, loopvars, combined_texts,
                 appended, outstanding, requests, written, log, writeFailures,
                 firstTree>>

\* A mutated epilogue: no master file for an empty accumulator.
WriteMasterUnlessEmpty ==
  /\ pc = "files"
  /\ fqueue = <<>>
  /\ IF combined_texts = <<>>
       THEN UNCHANGED <<outFiles, written, log>>
       ELSE /\ outFiles' = (MasterTxtPath(guideline_folder) :>
                              Join(SEP, combined_texts)) @@ outFiles
            /\ written' = written \cup {MasterTxtPath(guideline_folder)}
            /\ log' = Append(log, [kind |-> "master", file |-> guideline_folder])
  /\ pc' = "guidelines"
  /\ UNCHANGED <<input, outDirs, run, loopvars, combined_texts, appended,
                 handles, outstanding, requests, writeFailures, firstTree>>

\* Lines 85-90: the master file of the guideline.
WriteMaster ==
  /\ pc = "files"
  /\ fqueue = <<>>
  /\ outFiles' = (MasterTxtPath(guideline_folder) :>
                    Join(SEP, combined_texts)) @@ outFiles
  /\ written' = written \cup {MasterTxtPath(guideline_folder)}
  /\ log' = Append(log, [kind |-> "master", file |-> guideline_folder])
  /\ pc' = "guidelines"
  /\ UNCHANGED <<input, outDirs, run, loopvars, combined_texts, appended,
                 handles, outstanding, requests, writeFailures, firstTree>>

\* The outer loop is exhausted: parse_guidelines returns, the script ends.
FinishScript ==
  /\ pc = "guidelines"
  /\ gqueue = <<>>
  /\ pc' = "done"
  /\ firstTree' = IF run = 1 THEN <<outDirs, outFiles>> ELSE firstTree
  /\ UNCHANGED <<input, outDirs, outFiles, run, loopvars, combined_texts,
                 appended, handles, outstanding, requests, written, log,
                 writeFailures>>

\* The script is run a second time on the same input tree: a new process,
\* the output tree of the first execution still on disk.
RunAgain ==
  /\ pc = "done"
  /\ run = 1
  /\ run' = 2
  /\ pc' = "start"
  /\ gqueue' = <<>>
  /\ guideline_folder' = <<>>
  /\ fqueue' = <<>>
  /\ pdf_file' = <<>>
  /\ combined_texts' = <<>>
  /\ appended' = <<>>
  /\ requests' = <<>>
  /\ written' = {}
  /\ log' = <<>>
  /\ UNCHANGED <<input, outDirs, outFiles, handles, outstanding,
                 writeFailures, firstTree>>

\* One execution of the script.
Next ==
  \/ StartScript
  \/ SkipRootEntry
  \/ EnterGuideline
  \/ VisitEntry
  \/ CallParser
  \/ ParserRaises
  \/ ParserReturnsEmpty
  \/ ParserReturnsPages
  \/ CloseSource
  \/ WriteMaster
  \/ FinishScript

Spec == Init /\ [][Next]_vars

\* Two executions of the script, one after the other.
RerunNext == Next \/ RunAgain

RerunSpec == Init /\ [][RerunNext]_vars

(***************************************************************************)
(* The sort alone: the inner loop's sorted(os.listdir(...)) applied to     *)
(* every listing of two short names over a small alphabet.                 *)
(***************************************************************************)

\* Longest name in the listings given to the sort.
MaxNameLen == 3

SortAlphabet == {"a", "A", "0", "1", "2"}

SortNames == UNION {[1..k -> SortAlphabet] : k \in 1..MaxNameLen}

\* The script is about to enter guideline folder g, which holds two entries.
SortInit ==
  /\ rootListing = <<G>>
  /\ \E l \in {m \in [1..2 -> SortNames] : m[1] # m[2]} :
       pdfs = [g \in Guidelines |-> IF g = G THEN l ELSE <<>>]
  /\ result = [e \in {} |-> [raises |-> TRUE, documents |-> <<>>]]
  /\ outDirs = {<<>>}
  /\ outFiles = NoFiles
  /\ pc = "guidelines"
  /\ run = 1
  /\ gqueue = <<G>>
  /\ guideline_folder = <<>>
  /\ fqueue = <<>>
  /\ pdf_file = <<>>
  /\ combined_texts = <<>>
  /\ appended = <<>>
  /\ handles = {}
  /\ outstanding = {}
  /\ requests = <<>>
  /\ written = {}
  /\ log = <<>>
  /\ writeFailures = 0
  /\ firstTree = <<{}, NoFiles>>

SortNext == EnterGuideline

SortSpec == SortInit /\ [][SortNext]_vars

(***************************************************************************)
(* Vocabulary of the properties                                            *)
(***************************************************************************)

\* The name is some stem followed by ".pdf".
HasPdfSuffix(name) ==
  \E k \in 0..Len(name) : name = SubSeq(name, 1, k) \o DotPdf

\* The extraction of PDF `name` of folder g returned a non-empty page list.
Productive(g, name) ==
  /\ HasPdfSuffix(name)
  /\ ~result[<<g, name>>].raises
  /\ result[<<g, name>>].documents # <<>>

\* Folder g has been processed in this execution: the inner loop over it
\* and the write of its master file are over.
Processed(g) ==
  /\ pc # "start"
  /\ \A i \in 1..Len(gqueue) : gqueue[i] # g
  /\ g # guideline_folder \/ pc \in {"guidelines", "done"}

\* texts[1] sep texts[2] sep ... texts[n], built from the left.
RECURSIVE Glued(_, _)
Glued(sep, texts) ==
  IF Len(texts) = 0 THEN ""
  ELSE IF Len(texts) = 1 THEN texts[1]
  ELSE Glued(sep, SubSeq(texts, 1, Len(texts) - 1)) \o sep \o texts[Len(texts)]

\* The joined pages of the productive PDFs among `names`, in that order.
RECURSIVE ProductiveTexts(_, _)
ProductiveTexts(g, names) ==
  IF names = <<>> THEN <<>>
  ELSE (IF Productive(g, Head(names))
          THEN <<Glued("\n---\n", result[<<g, Head(names)>>].documents)>>
          ELSE <<>>) \o ProductiveTexts(g, Tail(names))

\* The master text a listing order of folder g leads to.
MasterOf(g, listing) == Glued("\n---\n", ProductiveTexts(g, Sorted(listing)))

\* How many extraction requests document e received in this execution.
RequestCount(e) == Cardinality({i \in 1..Len(requests) : requests[i] = e})

\* The text files below output/g
FilesUnder(g) == {p \in DOMAIN outFiles : p[1] = g}

(***************************************************************************)
(* C1.  When a guideline folder has been processed, its master file holds  *)
(* the "\n---\n"-join of the joined pages of exactly the PDFs whose        *)
(* extraction returned a non-empty page list; a PDF whose extraction       *)
(* returned nothing or raised contributes nothing, not even a separator.   *)
(***************************************************************************)
C1_MasterIsJoinOfProductive ==
  \A g \in Guidelines :
    Processed(g) =>
      /\ MasterTxtPath(g) \in DOMAIN outFiles
      /\ outFiles[MasterTxtPath(g)] = MasterOf(g, pdfs[g])

\* A processed folder with a productive PDF and a PDF whose extraction
\* raised or returned nothing.
C1_Witness ==
  /\ Processed(G)
  /\ \E n, m \in Range(pdfs[G]) :
       /\ Productive(G, n)
       /\ HasPdfSuffix(m)
       /\ ~Productive(G, m)

(***************************************************************************)
(* C2.  The master file does not depend on the order in which the          *)
(* directory listing returns the entries of the folder: every listing      *)
(* order of the same set of names leads to the master text written.        *)
(***************************************************************************)
C2_MasterIndependentOfListing ==
  \A g \in Guidelines :
    Processed(g) =>
      \A l \in ListingsOf(Range(pdfs[g]), Len(pdfs[g])) :
        Len(l) = Len(pdfs[g]) => outFiles[MasterTxtPath(g)] = MasterOf(g, l)

(***************************************************************************)
(* C3.  A failed or empty extraction aborts nothing and is not retried:    *)
(* the script never stops on it, no PDF receives more than one extraction  *)
(* request, and when a folder has been processed each of its PDFs has      *)
(* received exactly one and the master file has been written.              *)
(***************************************************************************)
C3_OneRequestPerPdf ==
  /\ pc # "crashed"
  /\ \A g \in Guidelines :
       /\ \A n \in Range(pdfs[g]) :
            HasPdfSuffix(n) =>
              /\ RequestCount(<<g, n>>) <= 1
              /\ Processed(g) => RequestCount(<<g, n>>) = 1
       /\ Processed(g) => MasterTxtPath(g) \in written

\* The script has ended, and in some folder a PDF was requested after the
\* extraction of another one had raised.
C3_Witness ==
  /\ pc = "done"
  /\ \E i, j \in 1..Len(requests) :
       /\ i < j
       /\ requests[i][1] = requests[j][1]
       /\ result[requests[i]].raises

(***************************************************************************)
(* C4.  For a processed folder with no PDF, or whose PDFs all returned     *)
(* nothing or raised, the master file has been written and is empty.       *)
(***************************************************************************)
C4_EmptyMaster ==
  \A g \in Guidelines :
    (Processed(g) /\ \A n \in Range(pdfs[g]) : ~Productive(g, n)) =>
      /\ MasterTxtPath(g) \in written
      /\ MasterTxtPath(g) \in DOMAIN outFiles
      /\ outFiles[MasterTxtPath(g)] = ""

\* Both folders processed: one without entries, one whose only PDFs failed.
C4_Witness ==
  /\ Processed(G)
  /\ Processed(H)
  /\ \E g, h \in Guidelines :
       /\ pdfs[g] = <<>>
       /\ \E n \in Range(pdfs[h]) : HasPdfSuffix(n)
       /\ \A n \in Range(pdfs[h]) : ~Productive(h, n)

(***************************************************************************)
(* C5.  Starting from an empty output folder and with every write          *)
(* accepted, the text files of a processed folder other than its master    *)
(* are exactly one <base>.txt per productive PDF, each holding the joined  *)
(* pages of that PDF - for every set of names in the folder.               *)
(***************************************************************************)
C5_OneArtifactPerProductivePdf ==
  \A g \in Guidelines :
    (Processed(g) /\ run = 1 /\ writeFailures = 0) =>
      /\ FilesUnder(g) \ {MasterTxtPath(g)} =
           {OutputTxtPath(g, n) : n \in {m \in Range(pdfs[g]) : Productive(g, m)}}
      /\ \A n \in Range(pdfs[g]) :
           Productive(g, n) =>
             outFiles[OutputTxtPath(g, n)] =
               Glued("\n---\n", result[<<g, n>>].documents)

(***************************************************************************)
(* C6.  natural_sort_key compares digit runs as integers and text chunks   *)
(* without regard to case.  For the two names of the sorted listing: when  *)
(* they are identical except for one run of digits, the name whose run     *)
(* has the smaller integer value comes first; when they are identical      *)
(* except for the case of letters, neither is moved before the other; and  *)
(* they are ordered as their lower-cased forms are.                        *)
(***************************************************************************)

\* a and b are identical except for one maximal run of digits, and the run
\* of a has the smaller integer value.
RunLess(a, b) ==
  \E i \in 0..(Len(a) - 1) :
    /\ i = 0 \/ ~IsDigit(a[i])
    /\ i < Len(b)
    /\ SubSeq(a, 1, i) = SubSeq(b, 1, i)
    /\ \E ja \in (i + 1)..Len(a) :
         /\ ja = Len(a) \/ ~IsDigit(a[ja + 1])
         /\ \A k \in (i + 1)..ja : IsDigit(a[k])
         /\ \E jb \in (i + 1)..Len(b) :
              /\ Len(a) - ja = Len(b) - jb
              /\ \A k \in (i + 1)..jb : IsDigit(b[k])
              /\ SubSeq(a, ja + 1, Len(a)) = SubSeq(b, jb + 1, Len(b))
              /\ ToInt(SubSeq(a, i + 1, ja)) < ToInt(SubSeq(b, i + 1, jb))

\* The inner loop has just been given the sorted listing of two entries.
JustSorted == pc = "files" /\ Len(fqueue) = 2 /\ Len(pdfs[guideline_folder]) = 2

C6_NaturalOrder ==
  JustSorted =>
    LET a == pdfs[guideline_folder][1]
        b == pdfs[guideline_folder][2]
    IN  /\ RunLess(a, b) => fqueue = <<a, b>>
        /\ RunLess(b, a) => fqueue = <<b, a>>
        /\ Lower(a) = Lower(b) => fqueue = <<a, b>>
        /\ (fqueue = <<a, b>>) = (Sorted(<<Lower(a), Lower(b)>>) = <<Lower(a), Lower(b)>>)

\* The listing <<"a10", "a2">> has been sorted to <<"a2", "a10">>.
C6_Witness ==
  /\ JustSorted
  /\ pdfs[guideline_folder] = << <<"a", "1", "0">>, <<"a", "2">> >>
  /\ fqueue = << <<"a", "2">>, <<"a", "1", "0">> >>

(***************************************************************************)
(* C7.  Running the script again on the same input tree, with the same     *)
(* extraction outcomes and every write accepted, raises no error on the    *)
(* output directories that now exist and leaves the output tree as the     *)
(* first execution left it.  The input tree is unchanged between the two   *)
(* executions, the order in which its directories list their entries       *)
(* included (pdfs and rootListing are never assigned).                     *)
(***************************************************************************)
C7_RerunIdempotent ==
  /\ pc # "crashed"
  /\ (run = 2 /\ pc = "done" /\ writeFailures = 0) =>
       <<outDirs, outFiles>> = firstTree

\* The second execution has ended over a tree holding a per-file artifact
\* and both master files.
C7_Witness ==
  /\ run = 2
  /\ pc = "done"
  /\ writeFailures = 0
  /\ Cardinality(DOMAIN outFiles) >= 3
  /\ {<<G>>, <<H>>} \subseteq firstTree[1]

(***************************************************************************)
(* C8.  The step that visits an entry whose name does not end in ".pdf"    *)
(* issues no extraction request, opens no file, writes nothing, prints     *)
(* nothing and leaves the accumulator as it is.                            *)
(***************************************************************************)
C8_NonPdfIgnored ==
  [][(pc = "files" /\ fqueue # <<>> /\ ~HasPdfSuffix(Head(fqueue))) =>
       UNCHANGED <<requests, handles, outstanding, outDirs, outFiles, written,
                   log, combined_texts, appended>>]_vars

\* An entry that is no PDF has been visited, after a PDF of the same
\* folder was processed.
C8_Witness ==
  /\ pc = "files"
  /\ pdf_file # <<>>
  /\ ~HasPdfSuffix(pdf_file)
  /\ combined_texts # <<>>

(***************************************************************************)
(* C9.  At most one source PDF is open and at most one extraction request  *)
(* is outstanding.  The source is open, and it alone, from the step that   *)
(* opens it until the with block is left; the request is outstanding       *)
(* only between the call and its outcome; whenever the inner loop is       *)
(* about to open the next document or to write the master file, nothing    *)
(* is open - whether the extraction returned pages, nothing, or raised.    *)
(***************************************************************************)
C9_HandleScope ==
  /\ Cardinality(handles) <= 1
  /\ Cardinality(outstanding) <= 1
  /\ pc = "opened" => handles = {Current} /\ outstanding = {}
  /\ pc = "parsing" => handles = {Current} /\ outstanding = {Current}
  /\ pc = "closing" => handles = {Current} /\ outstanding = {}
  /\ pc \in {"start", "guidelines", "files", "done"} =>
       handles = {} /\ outstanding = {}

\* A document is open while an earlier document of the folder raised.
C9_Witness ==
  /\ pc = "opened"
  /\ \E i \in 1..Len(requests) :
       /\ requests[i][1] = guideline_folder
       /\ result[requests[i]].raises

(***************************************************************************)
(* C10.  The master file holds the text of a document only if the          *)
(* per-file artifact of that document was written in the same execution,   *)
(* also when the write of the per-file artifact fails.                     *)
(***************************************************************************)
C10_MasterOnlyFromWrittenArtifacts ==
  (pc = "guidelines" /\ guideline_folder \in Guidelines) =>
    \A i \in 1..Len(appended) :
      OutputTxtPath(guideline_folder, appended[i]) \in written

====
